---- MODULE Spec2Model ----
(***************************************************************************)
(* Model of src/data/feature_engineering.py: the per-station feature       *)
(* transform feature_engineering_noaa_climate_data and the __main__        *)
(* driver that applies it to every file of the input directory.            *)
(*                                                                         *)
(* Conventions.                                                            *)
(*  - A float cell is a sequence: <<>> is NaN, <<v>> is the number v and  *)
(*    <<s, k>> is the exact quotient s / k (a rolling mean).  An integer   *)
(*    cell (the calendar columns before astype(float)) is a plain integer. *)
(*  - Temperatures are in tenths of a degree Celsius in the file and in    *)
(*    hundredths of a degree Fahrenheit after the conversion, so that      *)
(*    v / 10 * (9 / 5) + 32 is the exact integer 18 * v + 3200.            *)
(*  - A DATE cell of the file is the text of a date, <<y, m, d>>; parsing  *)
(*    it gives a timestamp, modelled by its proleptic Gregorian ordinal.   *)
(*  - Positions of a series are 1-based here; position p of the source     *)
(*    (0-based) is r = p + 1.                                              *)
(***************************************************************************)
EXTENDS Integers, Sequences, FiniteSets, TLC

(***************************************************************************)
(* Program constants                                                       *)
(***************************************************************************)
MinYear == 2013
BackLags == 30
FwdLags == 4
YearShift == 365
Window == 5

climate_vars == <<"PRCP", "TMIN", "TAVG", "TMAX">>

ClimateVarSet == {climate_vars[k] : k \in 1..Len(climate_vars)}

TempVars == {"TMIN", "TAVG", "TMAX"}

RequiredCols == {"DATE"} \cup ClimateVarSet

(***************************************************************************)
(* Calendar arithmetic of the timestamps (DATE.dt accessors)               *)
(***************************************************************************)
YearRange == 2010..2017

IsLeap(y) == (y % 4 = 0 /\ y % 100 # 0) \/ y % 400 = 0

DaysInMonth(y, m) ==
    IF m = 2 THEN (IF IsLeap(y) THEN 29 ELSE 28)
    ELSE IF m \in {4, 6, 9, 11} THEN 30 ELSE 31

DaysBeforeYear(y) ==
    365 * (y - 1) + ((y - 1) \div 4) - ((y - 1) \div 100) + ((y - 1) \div 400)

DaysBeforeMonth(y, m) ==
    <<0, 31, 59, 90, 120, 151, 181, 212, 243, 273, 304, 334>>[m]
      + (IF m > 2 /\ IsLeap(y) THEN 1 ELSE 0)

\* the text <<y, m, d>> names a calendar date
IsDateText(t) ==
    /\ Len(t) = 3
    /\ t[1] \in YearRange
    /\ t[2] \in 1..12
    /\ t[3] \in 1..DaysInMonth(t[1], t[2])

\* parsing: text -> timestamp
ToOrdinal(t) == DaysBeforeYear(t[1]) + DaysBeforeMonth(t[1], t[2]) + t[3]

\* DATE.dt.year
YearOf(ts) ==
    CHOOSE y \in YearRange : DaysBeforeYear(y) < ts /\ ts <= DaysBeforeYear(y + 1)

\* DATE.dt.dayofyear
DayOfYearOf(ts) == ts - DaysBeforeYear(YearOf(ts))

\* DATE.dt.month
MonthOf(ts) ==
    LET y == YearOf(ts)
        d == DayOfYearOf(ts)
    IN  CHOOSE m \in 1..12 :
            DaysBeforeMonth(y, m) < d /\ d <= DaysBeforeMonth(y, m) + DaysInMonth(y, m)

DayOf(ts) == DayOfYearOf(ts) - DaysBeforeMonth(YearOf(ts), MonthOf(ts))

\* formatting: timestamp -> text
DateText(ts) == <<YearOf(ts), MonthOf(ts), DayOf(ts)>>

\* the Monday that starts ISO week 1 of year y
IsoWeek1Monday(y) ==
    LET firstday == DaysBeforeYear(y) + 1
        firstweekday == (firstday + 6) % 7
        monday == firstday - firstweekday
    IN  IF firstweekday > 3 THEN monday + 7 ELSE monday

\* DATE.dt.isocalendar().week
IsoWeekOf(ts) ==
    LET y == YearOf(ts)
        w1 == IsoWeek1Monday(y)
    IN  IF ts < w1 THEN ((ts - IsoWeek1Monday(y - 1)) \div 7) + 1
        ELSE IF (ts - w1) \div 7 >= 52 /\ ts >= IsoWeek1Monday(y + 1) THEN 1
        ELSE ((ts - w1) \div 7) + 1

\* mutant: the month is not wrapped, (month + 3) // 3
SeasonNoWrap(month) == (month + 3) \div 3

\* (month % 12 + 3) // 3
SeasonOf(month) == ((month % 12) + 3) \div 3

(***************************************************************************)
(* Cells and columns                                                       *)
(***************************************************************************)
NaN == <<>>

IsNaN(c) == c = NaN

\* v / 10 * (9 / 5) + 32, tenths of a degree C -> hundredths of a degree F
ToFahrenheit(c) == IF IsNaN(c) THEN NaN ELSE <<18 * c[1] + 3200>>

\* astype(float) of one cell of an integer column
AsFloat(v) == <<v>>

\* mutant: the shift goes the other way
ShiftOpposite(s, i) ==
    LET n == Len(s)
    IN  [r \in 1..n |-> IF 1 <= r + i /\ r + i <= n THEN s[r + i] ELSE NaN]

\* Series.shift(i): the value i rows earlier (later when i < 0), by position
Shift(s, i) ==
    LET n == Len(s)
    IN  [r \in 1..n |-> IF 1 <= r - i /\ r - i <= n THEN s[r - i] ELSE NaN]

RECURSIVE SumCellsM(_, _, _)
SumCellsM(s, lo, hi) ==
    IF lo > hi THEN 0
    ELSE (IF s[lo] = <<>> THEN 0 ELSE s[lo][1]) + SumCellsM(s, lo + 1, hi)

\* mutant: min_periods = 1, the mean of the values that are there
RollingMeanPartial(s, w) ==
    [r \in 1..Len(s) |->
        LET lo == IF r - w + 1 < 1 THEN 1 ELSE r - w + 1
            nobs == Cardinality({k \in lo..r : s[k] # <<>>})
        IN  IF nobs >= 1 THEN <<SumCellsM(s, lo, r), nobs>> ELSE <<>>]

RECURSIVE SumCells(_, _, _)
SumCells(s, lo, hi) ==
    IF lo > hi THEN 0
    ELSE (IF IsNaN(s[lo]) THEN 0 ELSE s[lo][1]) + SumCells(s, lo + 1, hi)

\* Series.rolling(window=w).mean(): min_periods = w observations that are
\* not NaN among the w rows ending at r, else NaN
RollingMean(s, w) ==
    [r \in 1..Len(s) |->
        LET lo == IF r - w + 1 < 1 THEN 1 ELSE r - w + 1
            nobs == Cardinality({k \in lo..r : ~IsNaN(s[k])})
        IN  IF nobs >= w THEN <<SumCells(s, lo, r), nobs>> ELSE NaN]

\* f'{var}_lag_{i}'
LagName(var, i) == var \o "_lag_" \o ToString(i)

\* f'{var}_mean_5d_window'
MeanName(var) == var \o "_mean_5d_window"

BackwardIdx == 1..BackLags

ForwardIdx == {-j : j \in 1..FwdLags}

\* {f'{var}_lag_{i}': df[var].shift(i) for i in idxs} as a frame's columns
LaggedColumns(s, var, idxs) ==
    [c \in {LagName(var, i) : i \in idxs} |->
        Shift(s, CHOOSE i \in idxs : LagName(var, i) = c)]

(***************************************************************************)
(* The data frame: a positional list of index labels and, per column      *)
(* name, a series of the same length.  datetime tells whether DATE was     *)
(* parsed to timestamps (dtype datetime64) or left as text (dtype object), *)
(* ints names the columns of integer dtype.                                *)
(***************************************************************************)
NRows(df) == Len(df.index)

IsError(x) == "error" \in DOMAIN x

Raise(kind) == [error |-> kind]

\* pd.read_csv(file_path, parse_dates=['DATE'])
read_csv(file) ==
    IF "DATE" \notin file.header THEN Raise("ValueError")
    ELSE LET n == Len(file.rows)
             parsed == \A r \in 1..n : IsDateText(file.rows[r]["DATE"])
         IN  [index |-> [r \in 1..n |-> r - 1],
              datetime |-> parsed,
              ints |-> {},
              col |-> [c \in file.header |->
                         [r \in 1..n |->
                            IF c = "DATE" /\ parsed
                            THEN ToOrdinal(file.rows[r][c])
                            ELSE file.rows[r][c]]]]

\* df = df[['DATE'] + climate_vars]
SelectColumns(df) ==
    IF ~(RequiredCols \subseteq DOMAIN df.col) THEN Raise("KeyError")
    ELSE [df EXCEPT !.col = [c \in RequiredCols |-> df.col[c]]]

\* df[t] = df[t] / 10 * (9 / 5) + 32 for t in TMIN, TAVG, TMAX
ConvertTemperatures(df) ==
    [df EXCEPT !.col =
        [c \in DOMAIN df.col |->
            IF c \in TempVars
            THEN LET s == df.col[c]
                 IN  [r \in 1..Len(s) |-> ToFahrenheit(s[r])]
            ELSE df.col[c]]]

\* df[name] = values
WithColumn(df, name, values) ==
    [df EXCEPT !.col =
        [c \in (DOMAIN df.col) \cup {name} |->
            IF c = name THEN values ELSE df.col[c]]]

\* df[name] = values, of integer dtype
WithIntColumn(df, name, values) ==
    [WithColumn(df, name, values) EXCEPT !.ints = df.ints \cup {name}]

\* df[mask]: the rows at the positions keep (ascending), labels retained
TakeRows(df, keep) ==
    LET m == Len(keep)
    IN  [df EXCEPT !.index = [k \in 1..m |-> df.index[keep[k]]],
                   !.col = [c \in DOMAIN df.col |->
                              LET s == df.col[c]
                              IN  [k \in 1..m |-> s[keep[k]]]]]

Positions(n) == [r \in 1..n |-> r]

\* mutant: YEAR is added and no row is removed
YearFilterKeepAll(df) ==
    IF ~df.datetime THEN Raise("AttributeError")
    ELSE WithIntColumn(df, "YEAR",
             [r \in 1..NRows(df) |-> YearOf(df.col["DATE"][r])])

\* df['YEAR'] = df['DATE'].dt.year ; df = df[df['YEAR'] >= 2013]
YearFilter(df) ==
    IF ~df.datetime THEN Raise("AttributeError")
    ELSE LET withYear == WithIntColumn(df, "YEAR",
                            [r \in 1..NRows(df) |-> YearOf(df.col["DATE"][r])])
             Keep(r) == withYear.col["YEAR"][r] >= MinYear
         IN  TakeRows(withYear, SelectSeq(Positions(NRows(df)), Keep))

\* MONTH, DAY_OF_YEAR, WEEK_OF_YEAR, SEASON
CalendarColumns(df) ==
    LET date == df.col["DATE"]
        n == NRows(df)
        m == WithIntColumn(df, "MONTH", [r \in 1..n |-> MonthOf(date[r])])
        d == WithIntColumn(m, "DAY_OF_YEAR", [r \in 1..n |-> DayOfYearOf(date[r])])
        w == WithIntColumn(d, "WEEK_OF_YEAR", [r \in 1..n |-> IsoWeekOf(date[r])])
    IN  WithIntColumn(w, "SEASON", [r \in 1..n |-> SeasonOf(MonthOf(date[r]))])

\* pd.concat([df, frame...], axis=1) of frames over the same index
ConcatColumns(df, cols) ==
    [df EXCEPT !.col =
        [c \in (DOMAIN df.col) \cup (DOMAIN cols) |->
            IF c \in DOMAIN df.col THEN df.col[c] ELSE cols[c]]]

\* mutant: the forward lags are left out
AddLagsBackwardOnly(df, var) ==
    ConcatColumns(df, LaggedColumns(df.col[var], var, BackwardIdx))

\* one iteration of the lag loop
AddLags(df, var) ==
    ConcatColumns(
        ConcatColumns(df, LaggedColumns(df.col[var], var, BackwardIdx)),
        LaggedColumns(df.col[var], var, ForwardIdx))

\* mutant: the series is shifted by 364 rows
AddMeanWindowShort(df, var) ==
    WithColumn(df, MeanName(var),
               RollingMean(Shift(df.col[var], YearShift - 1), Window))

\* one iteration of the window loop
AddMeanWindow(df, var) ==
    WithColumn(df, MeanName(var),
               RollingMean(Shift(df.col[var], YearShift), Window))

\* df.drop('DATE', axis=1).astype(float)
DropDateAsFloat(df) ==
    [df EXCEPT !.ints = {},
               !.col =
        [c \in (DOMAIN df.col) \ {"DATE"} |->
            IF c \in df.ints
            THEN LET s == df.col[c]
                 IN  [r \in 1..Len(s) |-> AsFloat(s[r])]
            ELSE df.col[c]]]

\* mutant: dropna(how='all'), a row goes only when all its values are missing
DropNaAll(df) ==
    LET Valued(r) == \E c \in DOMAIN df.col : ~IsNaN(df.col[c][r])
    IN  TakeRows(df, SelectSeq(Positions(NRows(df)), Valued))

\* df.dropna()
DropNa(df) ==
    LET Complete(r) == \A c \in DOMAIN df.col : ~IsNaN(df.col[c][r])
    IN  TakeRows(df, SelectSeq(Positions(NRows(df)), Complete))

\* the frame df itself, with its columns evaluated (the value is unchanged)
Frame(df) ==
    IF IsError(df) THEN df
    ELSE [df EXCEPT !.index = @ \o <<>>,
                    !.col = [c \in DOMAIN df.col |-> df.col[c] \o <<>>] @@ <<>>]

RECURSIVE LagLoop(_, _)
LagLoop(df, k) ==
    IF k > Len(climate_vars) THEN df
    ELSE LagLoop(Frame(AddLags(df, climate_vars[k])), k + 1)

RECURSIVE MeanLoop(_, _)
MeanLoop(df, k) ==
    IF k > Len(climate_vars) THEN df
    ELSE MeanLoop(Frame(AddMeanWindow(df, climate_vars[k])), k + 1)

\* the whole transform, or the error it raises
feature_engineering_noaa_climate_data(path) ==
    LET loaded == Frame(read_csv(path))
        selected == IF IsError(loaded) THEN loaded
                    ELSE Frame(SelectColumns(loaded))
        converted == IF IsError(selected) THEN selected
                     ELSE Frame(ConvertTemperatures(selected))
        filtered == IF IsError(converted) THEN converted
                    ELSE Frame(YearFilter(converted))
        calendar == Frame(CalendarColumns(filtered))
        lagged == LagLoop(calendar, 1)
        windowed == MeanLoop(lagged, 1)
        floats == Frame(DropDateAsFloat(windowed))
    IN  IF IsError(filtered) THEN filtered
        ELSE Frame(DropNa(floats))

(***************************************************************************)
(* Input files: one row per day from 2013-01-01 on, optionally preceded by *)
(* rows of 2012, with a calendar gap, with a 2012 row out of place, with   *)
(* missing values, with an extra column,    without a required column, or  *)
(* with a DATE that names no calendar date.                                *)
(***************************************************************************)
MaxRows == 376
MaxPre == 2
GapDays == 3

Lengths == {0, 1, 35, 373, 374, 400, MaxRows}

HoleAt == {0, 4, 30, 100, 366, 380, 399}

FirstDay == ToOrdinal(<<MinYear, 1, 1>>)

\* The file's layout: nPre days of the year before MinYear, then n days from
\* MinYear-01-01 on, GapDays calendar days missing after the gapAt-th of them
\* (gapAt > 0), and one more day before MinYear put after the strayAfter-th
\* of them (0 < strayAfter < n).
Layout(nPre, n, gapAt, strayAfter) ==
    [nPre |-> nPre, n |-> n, gapAt |-> gapAt,
     strayAt |-> IF strayAfter > 0 /\ strayAfter < n THEN nPre + strayAfter + 1 ELSE 0]

FileRows(lay) == lay.nPre + lay.n + (IF lay.strayAt > 0 THEN 1 ELSE 0)

\* the 1-based position of file row k in the series from MinYear on, 0 when
\* the row is of an earlier year
Kept(lay, k) ==
    IF k <= lay.nPre \/ k = lay.strayAt THEN 0
    ELSE k - lay.nPre - (IF lay.strayAt > 0 /\ k > lay.strayAt THEN 1 ELSE 0)

\* the day of file row k
DayAt(lay, k) ==
    IF k <= lay.nPre THEN FirstDay - lay.nPre + k - 1
    ELSE IF k = lay.strayAt THEN FirstDay - 40
    ELSE FirstDay + Kept(lay, k) - 1
           + (IF lay.gapAt > 0 /\ Kept(lay, k) > lay.gapAt THEN GapDays ELSE 0)

VarNo(var) == CHOOSE k \in 1..Len(climate_vars) : climate_vars[k] = var

\* the reading of var in file row k (distinct in every row)
Reading(var, k) == <<8 * k + VarNo(var) - 100>>

NoHole == {}

\* <<var, q>> in holes: var is missing at 0-based position q of the kept series
MakeFile(lay, holes, header, badAt) ==
    [header |-> header,
     rows |-> [k \in 1..FileRows(lay) |->
                [c \in header |->
                    IF c = "DATE"
                    THEN (IF k = badAt THEN <<MinYear, 2, 30>> ELSE DateText(DayAt(lay, k)))
                    ELSE IF c \notin ClimateVarSet THEN <<k>>
                    ELSE IF <<c, Kept(lay, k) - 1>> \in holes THEN NaN
                    ELSE Reading(c, k)]]]

Headers ==
    {RequiredCols, RequiredCols \cup {"STATION"}, RequiredCols \ {"TAVG"},
     RequiredCols \ {"DATE"}}

CleanFiles ==
    {MakeFile(Layout(nPre, n, gapAt, 0), NoHole, RequiredCols, 0) :
        nPre \in 0..MaxPre, n \in Lengths, gapAt \in {0, 20}}
      \ {MakeFile(Layout(0, 0, 0, 0), NoHole, RequiredCols, 0)}

HoleFiles ==
    {MakeFile(Layout(1, 400, 0, 0), {<<var, q>>}, RequiredCols, 0) :
        var \in ClimateVarSet, q \in HoleAt}
      \cup {MakeFile(Layout(0, 400, 0, 0), {<<"PRCP", 6>>, <<"TMAX", 380>>},
                      RequiredCols, 0)}

StrayFiles ==
    {MakeFile(Layout(nPre, n, 0, 372), NoHole, RequiredCols \cup {"STATION"}, 0) :
        nPre \in 0..1, n \in {374, MaxRows}}

MalformedFiles ==
    {MakeFile(Layout(1, n, 0, 0), NoHole, header, badAt) :
        n \in {1, 374}, header \in Headers, badAt \in {0, 2}}

InputFiles == CleanFiles \cup HoleFiles \cup StrayFiles \cup MalformedFiles

(***************************************************************************)
(* File names, paths and the files of an input directory                   *)
(***************************************************************************)
MaxFiles == 3
BigDirFiles == 2

noaa_data_path == "raw_data/noaa/to_csv"

out_path == "processed_data"

\* file names, as sequences of characters
StationsWord == <<"s", "t", "a", "t", "i", "o", "n", "s">>

NameA == <<"a", ".", "c", "s", "v">>

NameB == <<"b", ".", "c", "s", "v">>

NameStation == <<"s", "t", "a", "t", "i", "o", "n", ".", "c", "s", "v">>

NameGhcnd == <<"g", "-">> \o StationsWord \o <<".", "t", "x", "t">>

FileNames == {NameA, NameB, NameStation, NameGhcnd}

\* pat in name: pat occurs in name as a contiguous substring
Contains(pat, name) ==
    \E at \in 0..(Len(name) - Len(pat)) :
        SubSeq(name, at + 1, at + Len(pat)) = pat

\* mutant: not 'station' in file
IsClimateFileStation(name) ==
    ~Contains(<<"s", "t", "a", "t", "i", "o", "n">>, name)

\* not 'stations' in file
IsClimateFile(name) == ~Contains(StationsWord, name)

\* os.path.join(dir, name), f"{dir}/{name}"
Path(dir, name) == <<dir, name>>

\* a station-metadata file: none of the columns the transform needs
StationsFile ==
    [header |-> {"ID", "NAME"},
     rows |-> <<[c \in {"ID", "NAME"} |-> <<1>>]>>]

GoodFile == MakeFile(Layout(1, 374, 0, 0), NoHole, RequiredCols, 0)

ShortFile == MakeFile(Layout(1, 2, 0, 0), NoHole, RequiredCols, 0)

NoColumnFile == MakeFile(Layout(0, 1, 0, 0), NoHole, RequiredCols \ {"TAVG"}, 0)

BadDateFile == MakeFile(Layout(0, 2, 0, 0), NoHole, RequiredCols, 2)

\* what an input directory may hold under each name
FilesFor(name) ==
    IF ~IsClimateFile(name) THEN {StationsFile}
    ELSE IF name = NameA THEN {GoodFile, NoColumnFile}
    ELSE IF name = NameB THEN {ShortFile, BadDateFile}
    ELSE {ShortFile}

Range(l) == {l[k] : k \in 1..Len(l)}

\* the lists without repetition of at most n of the names
RECURSIVE Listings(_, _)
Listings(names, n) ==
    IF n = 0 THEN {<<>>}
    ELSE LET shorter == Listings(names, n - 1)
         IN  shorter \cup
             UNION {{Append(l, x) : x \in names \ Range(l)} :
                        l \in {m \in shorter : Len(m) = n - 1}}

\* the names of the files of directory dir
ListDir(files, dir) == {p[2] : p \in {q \in DOMAIN files : q[1] = dir}}

\* os.listdir(dir): the names of dir, in any order
listdir(files, dir) ==
    LET names == ListDir(files, dir)
    IN  {l \in Listings(names, Cardinality(names)) : Range(l) = names}

\* a CSV left in the output directory by something else
StaleCsv == [header |-> {"OLD"}, rows |-> <<>>]

\* engineered_data.to_csv(path, index=False): header and rows, no index
to_csv(frame) ==
    [header |-> DOMAIN frame.col,
     rows |-> [r \in 1..NRows(frame) |->
                 [c \in DOMAIN frame.col |-> frame.col[c][r]]]]

\* mutant: writing appends the rows to the file that is there (mode='a')
WriteAppend(files, path, content) ==
    [x \in (DOMAIN files) \cup {path} |->
        IF x # path THEN files[x]
        ELSE IF path \in DOMAIN files
        THEN [header |-> content.header, rows |-> files[path].rows \o content.rows]
        ELSE content]

\* writing path replaces what was there
WriteFile(files, path, content) ==
    [x \in (DOMAIN files) \cup {path} |-> IF x = path THEN content ELSE files[x]]

\* the input directories: at most MaxFiles files, and at most BigDirFiles
\* when one of them is as large as GoodFile
InputDirs ==
    UNION {
        {d \in [{Path(noaa_data_path, x) : x \in names} ->
                    UNION {FilesFor(x) : x \in FileNames}] :
            /\ \A q \in DOMAIN d : d[q] \in FilesFor(q[2])
            /\ (\E q \in DOMAIN d : d[q] = GoodFile) => Cardinality(names) <= BigDirFiles}
        : names \in {n \in SUBSET FileNames : Cardinality(n) <= MaxFiles}}

\* what the output directory may hold before the script starts
StaleOutput ==
    WriteFile(WriteFile(<<>>, Path(out_path, NameA), StaleCsv),
              Path(out_path, NameGhcnd), StaleCsv)

(***************************************************************************)
(* State                                                                   *)
(***************************************************************************)
VARIABLES
    file,         \* the file handed to the transform
    df,           \* the transform's local data frame
    pc,           \* the transform's position
    loop,         \* index into climate_vars of the running loop
    result,       \* the frame returned, or the error raised
    series,       \* history: the frame dropna was applied to
    fs,           \* the file system: path -> file
    out_exists,   \* os.path.exists(out_path)
    noaa_files,   \* os.listdir(noaa_data_path), taken when the script starts
    main,         \* the driver's position
    i,            \* the driver's index into noaa_files
    reads,        \* the paths handed to read_csv, in order, this run
    writes,       \* the paths written by to_csv, in order, this run
    rerun,        \* the script has completed a run before this one
    fs0,          \* history: the file system when this run started
    first_out     \* history: the file system as the first completed run left it

transformVars == <<file, df, pc, loop, result, series>>

driverVars ==
    <<fs, out_exists, noaa_files, main, i, reads, writes, rerun, fs0, first_out>>

vars == <<transformVars, driverVars>>

NoFrame == [index |-> <<>>, datetime |-> FALSE, ints |-> {}, col |-> <<>>]

(***************************************************************************)
(* The transform, step by step                                             *)
(***************************************************************************)
NoDriver ==
    /\ fs = <<>>
    /\ out_exists = FALSE
    /\ noaa_files = <<>>
    /\ main = "idle"
    /\ i = 0
    /\ reads = <<>>
    /\ writes = <<>>
    /\ rerun = FALSE
    /\ fs0 = <<>>
    /\ first_out = <<>>

Init ==
    /\ file \in InputFiles
    /\ df = NoFrame
    /\ pc = "read_csv"
    /\ loop = 0
    /\ result = NoFrame
    /\ series = NoFrame
    /\ NoDriver

\* a step of the straight-line part: df = op(df), or the error ends the call
Step(from, to, new) ==
    /\ pc = from
    /\ IF IsError(new)
       THEN /\ pc' = "raised"
            /\ result' = new
            /\ df' = df
       ELSE /\ pc' = to
            /\ df' = new
            /\ result' = result
    /\ UNCHANGED <<file, loop, series, driverVars>>

ReadCsv == Step("read_csv", "select", read_csv(file))

Select == Step("select", "convert", SelectColumns(df))

Convert == Step("convert", "year", ConvertTemperatures(df))

FilterYear == Step("year", "calendar", YearFilter(df))

Calendar ==
    /\ pc = "calendar"
    /\ df' = CalendarColumns(df)
    /\ pc' = "lags"
    /\ loop' = 1
    /\ UNCHANGED <<file, result, series, driverVars>>

Lags ==
    /\ pc = "lags"
    /\ df' = AddLags(df, climate_vars[loop])
    /\ IF loop < Len(climate_vars)
       THEN loop' = loop + 1 /\ pc' = pc
       ELSE loop' = 1 /\ pc' = "window"
    /\ UNCHANGED <<file, result, series, driverVars>>

MeanWindow ==
    /\ pc = "window"
    /\ df' = AddMeanWindow(df, climate_vars[loop])
    /\ IF loop < Len(climate_vars)
       THEN loop' = loop + 1 /\ pc' = pc
       ELSE loop' = 0 /\ pc' = "astype"
    /\ UNCHANGED <<file, result, series, driverVars>>

AsType ==
    /\ pc = "astype"
    /\ df' = DropDateAsFloat(df)
    /\ pc' = "dropna"
    /\ UNCHANGED <<file, loop, result, series, driverVars>>

DropNaReturn ==
    /\ pc = "dropna"
    /\ series' = df
    /\ df' = DropNa(df)
    /\ result' = df'
    /\ pc' = "returned"
    /\ UNCHANGED <<file, loop, driverVars>>

Next ==
    \/ ReadCsv
    \/ Select
    \/ Convert
    \/ FilterYear
    \/ Calendar
    \/ Lags
    \/ MeanWindow
    \/ AsType
    \/ DropNaReturn

Spec == Init /\ [][Next]_vars

(***************************************************************************)
(* The driver (__main__)                                                   *)
(***************************************************************************)
NoTransform ==
    /\ file = [header |-> {}, rows |-> <<>>]
    /\ df = NoFrame
    /\ pc = "idle"
    /\ loop = 0
    /\ result = NoFrame
    /\ series = NoFrame

\* the state once the module is loaded: the paths are set and the input
\* directory is listed
DriverInit ==
    /\ NoTransform
    /\ out_exists \in BOOLEAN
    /\ \E d \in InputDirs : fs = IF out_exists THEN d @@ StaleOutput ELSE d
    /\ noaa_files \in listdir(fs, noaa_data_path)
    /\ main = "start"
    /\ i = 0
    /\ reads = <<>>
    /\ writes = <<>>
    /\ rerun = FALSE
    /\ fs0 = fs
    /\ first_out = <<>>

\* if not os.path.exists(out_path): os.makedirs(out_path)
MakeDirs ==
    /\ main = "start"
    /\ out_exists' = TRUE
    /\ main' = "loop"
    /\ i' = 1
    /\ UNCHANGED <<fs, noaa_files, reads, writes, rerun, fs0, first_out,
                   transformVars>>

\* mutant: a file whose transform fails is skipped and the loop goes on
ProcessFileIsolated ==
    /\ main = "loop"
    /\ i <= Len(noaa_files)
    /\ LET name == noaa_files[i]
           source == <<noaa_data_path, name>>
           engineered_data == feature_engineering_noaa_climate_data(fs[source])
       IN  IF Contains(StationsWord, name)
           THEN /\ i' = i + 1
                /\ UNCHANGED <<main, fs, reads, writes>>
           ELSE IF IsError(engineered_data)
           THEN /\ i' = i + 1
                /\ reads' = Append(reads, source)
                /\ UNCHANGED <<main, fs, writes>>
           ELSE /\ fs' = [x \in (DOMAIN fs) \cup {<<out_path, name>>} |->
                            IF x = <<out_path, name>> THEN to_csv(engineered_data)
                            ELSE fs[x]]
                /\ reads' = Append(reads, source)
                /\ writes' = Append(writes, <<out_path, name>>)
                /\ i' = i + 1
                /\ main' = main
    /\ UNCHANGED <<out_exists, noaa_files, rerun, fs0, first_out, transformVars>>

\* one iteration of: for file in noaa_files
ProcessFile ==
    /\ main = "loop"
    /\ i <= Len(noaa_files)
    /\ LET name == noaa_files[i]
           source == Path(noaa_data_path, name)
           engineered_data == feature_engineering_noaa_climate_data(fs[source])
       IN  IF ~IsClimateFile(name)
           THEN /\ i' = i + 1
                /\ UNCHANGED <<main, fs, reads, writes>>
           ELSE IF IsError(engineered_data)
           THEN /\ main' = "error"
                /\ reads' = Append(reads, source)
                /\ UNCHANGED <<i, fs, writes>>
           ELSE /\ fs' = WriteFile(fs, Path(out_path, name), to_csv(engineered_data))
                /\ reads' = Append(reads, source)
                /\ writes' = Append(writes, Path(out_path, name))
                /\ i' = i + 1
                /\ main' = main
    /\ UNCHANGED <<out_exists, noaa_files, rerun, fs0, first_out, transformVars>>

\* the loop is exhausted: the script ends normally
Finish ==
    /\ main = "loop"
    /\ i > Len(noaa_files)
    /\ main' = "done"
    /\ first_out' = IF rerun THEN first_out ELSE fs
    /\ UNCHANGED <<fs, out_exists, noaa_files, i, reads, writes, rerun, fs0,
                   transformVars>>

\* the script is started again over the directories as the last run left them
Rerun ==
    /\ main = "done"
    /\ rerun' = TRUE
    /\ noaa_files' \in listdir(fs, noaa_data_path)
    /\ main' = "start"
    /\ i' = 0
    /\ reads' = <<>>
    /\ writes' = <<>>
    /\ fs0' = fs
    /\ UNCHANGED <<fs, out_exists, first_out, transformVars>>

DriverNext ==
    \/ MakeDirs
    \/ ProcessFile
    \/ Finish
    \/ Rerun

DriverSpec == DriverInit /\ [][DriverNext]_vars

(***************************************************************************)
(* Properties of the transform (specification Spec)                        *)
(***************************************************************************)
\* the frame holds every lag column
LagsDone == pc \in {"window", "astype", "dropna"}

\* the frame holds every window column
WindowsDone == pc \in {"astype", "dropna"}

\* the calendar columns are there, still of integer dtype
CalendarDone == pc \in {"lags", "window", "astype"}

\* the row of the file that the row labelled l of a frame was read from
FileRow(l) == file.rows[l + 1]

LabelsOf(f) == {f.index[r] : r \in 1..NRows(f)}

\* the position in frame f of the row labelled l
PositionOf(f, l) == CHOOSE r \in 1..NRows(f) : f.index[r] = l

\* C1: every row returned has no missing value in any column, and no row
\* among the first 30 or the last 4 rows of the filtered series is returned.
C1_OutputComplete ==
    pc = "returned" =>
        /\ \A c \in DOMAIN result.col : \A r \in 1..NRows(result) :
               result.col[c][r] # NaN
        /\ \A r \in 1..NRows(series) :
               (r <= 30 \/ r > NRows(series) - 4) =>
                   series.index[r] \notin LabelsOf(result)

\* rows are returned although rows of the series had missing values
C1_Witness ==
    /\ pc = "returned"
    /\ NRows(result) > 0
    /\ NRows(series) > NRows(result) + 34

\* C2: the rows of a year before 2013 are removed before the lag and window
\* columns are computed: no returned row has YEAR < 2013, every lag value and
\* every window mean of a returned row is taken, by position in the retained
\* series, from file rows of 2013 or later, and the first retained row has a
\* missing lag_1.
C2_FilterBeforeLags ==
    pc = "returned" =>
        /\ \A k \in 1..NRows(result) : result.col["YEAR"][k][1] >= 2013
        /\ \A r \in 1..NRows(series) : FileRow(series.index[r])["DATE"][1] >= 2013
        /\ \A k \in 1..NRows(result) : \A var \in ClimateVarSet :
               LET r == PositionOf(series, result.index[k])
                   From(q) == LET cell == FileRow(series.index[q])[var]
                              IN  IF var \in TempVars THEN ToFahrenheit(cell) ELSE cell
               IN  /\ \A d \in (1..30) \cup {-4, -3, -2, -1} :
                          result.col[LagName(var, d)][k] = From(r - d)
                   /\ result.col[MeanName(var)][k] =
                          <<From(r - 369)[1] + From(r - 368)[1] + From(r - 367)[1]
                              + From(r - 366)[1] + From(r - 365)[1], 5>>
        /\ NRows(series) > 0 =>
               \A var \in ClimateVarSet : IsNaN(series.col[LagName(var, 1)][1])

\* rows are returned from a file that starts with a row of 2012 and has
\* another row of 2012 inside the series
C2_Witness ==
    /\ pc = "returned"
    /\ NRows(result) > 0
    /\ file.rows[1]["DATE"][1] < 2013
    /\ \E k \in 2..Len(file.rows) :
           file.rows[k]["DATE"][1] < 2013 /\ file.rows[k - 1]["DATE"][1] >= 2013

\* C3 as stated: for each climate variable and every position p >= 369
\* (r >= 370), the window column at p is the mean of the variable at the
\* positions p-365, p-364, p-363, p-362 and p-361.
C3_WindowAfterShift ==
    WindowsDone =>
        \A var \in ClimateVarSet : \A r \in 370..NRows(df) :
            LET a == df.col[var]
                five == {r - 365, r - 364, r - 363, r - 362, r - 361}
            IN  df.col[MeanName(var)][r] =
                    IF \E q \in five : IsNaN(a[q]) THEN NaN
                    ELSE <<a[r - 365][1] + a[r - 364][1] + a[r - 363][1]
                             + a[r - 362][1] + a[r - 361][1], 5>>

\* C3 amended: for each climate variable and every position p >= 369
\* (r >= 370), the window column at p is the mean of the variable at the
\* positions p-369, p-368, p-367, p-366 and p-365, the five rows that end 365
\* rows earlier (missing when one of the five is missing).
C3_WindowMean ==
    WindowsDone =>
        \A var \in ClimateVarSet : \A r \in 370..NRows(df) :
            LET a == df.col[var]
                five == {r - 369, r - 368, r - 367, r - 366, r - 365}
            IN  df.col[MeanName(var)][r] =
                    IF \E q \in five : IsNaN(a[q]) THEN NaN
                    ELSE <<a[r - 369][1] + a[r - 368][1] + a[r - 367][1]
                             + a[r - 366][1] + a[r - 365][1], 5>>

\* a window mean is there at position 369, and missing at a later position
\* for a missing value among its five
C3_Witness ==
    /\ pc = "dropna"
    /\ NRows(df) >= 375
    /\ \E var \in ClimateVarSet :
           /\ ~IsNaN(df.col[MeanName(var)][375])
           /\ IsNaN(df.col[MeanName(var)][370])

\* C4: var_lag_i at position r is var at r-i and var_lag_-j at r is var at
\* r+j, by rows, missing when that position is outside the series.
C4_LagsByPosition ==
    LagsDone =>
        \A var \in ClimateVarSet :
            LET n == NRows(df)
                a == df.col[var]
            IN  /\ \A d \in 1..30 :
                       LET lag == df.col[LagName(var, d)]
                       IN  \A r \in 1..n :
                               lag[r] = IF r - d >= 1 THEN a[r - d] ELSE NaN
                /\ \A j \in 1..4 :
                       LET lag == df.col[LagName(var, -j)]
                       IN  \A r \in 1..n :
                               lag[r] = IF r + j <= n THEN a[r + j] ELSE NaN

\* the lags are there for a series whose dates have a gap
C4_Witness ==
    /\ pc = "window"
    /\ NRows(df) >= 35
    /\ \E r \in 1..(NRows(df) - 1) : df.col["DATE"][r + 1] - df.col["DATE"][r] > 1
    /\ ~IsNaN(df.col[LagName("TMAX", 30)][31])
    /\ IsNaN(df.col[LagName("TMAX", 30)][30])

\* C7: SEASON is 1 for the months 12, 1, 2, 2 for 3, 4, 5, 3 for 6, 7, 8 and
\* 4 for 9, 10, 11.
C7_SeasonOfMonth ==
    CalendarDone =>
        \A r \in 1..NRows(df) :
            LET m == FileRow(df.index[r])["DATE"][2]
                season == df.col["SEASON"][r]
            IN  /\ m \in 1..12
                /\ season \in 1..4
                /\ m \in {12, 1, 2} => season = 1
                /\ m \in {3, 4, 5} => season = 2
                /\ m \in {6, 7, 8} => season = 3
                /\ m \in {9, 10, 11} => season = 4

\* the season is computed for a series with rows in every month
C7_Witness ==
    /\ pc = "lags"
    /\ {df.col["MONTH"][r] : r \in 1..NRows(df)} = 1..12

\* every climate variable is present at every position of the series
NoMissingValue(f) ==
    \A var \in ClimateVarSet : \A r \in 1..NRows(f) : ~IsNaN(f.col[var][r])

C10_MissingValueRemoves ==
    pc = "returned" =>
        \A r \in 1..NRows(series) :
            series.index[r] \in LabelsOf(result) =>
                \A q \in ((r - 30)..(r + 4)) \cup ((r - 369)..(r - 365)) :
                    /\ 1 <= q
                    /\ q <= NRows(series)
                    /\ \A var \in ClimateVarSet : ~IsNaN(series.col[var][q])

\* a missing value has removed rows that the series' ends alone would keep,
\* by a lag column for one row and by the window column for another
C10_Witness ==
    /\ pc = "returned"
    /\ NRows(result) > 0
    /\ \E r \in 370..(NRows(series) - 4) : \E var \in ClimateVarSet :
           /\ series.index[r] \notin LabelsOf(result)
           /\ \E q \in (r - 30)..(r + 4) : IsNaN(series.col[var][q])
    /\ \E r \in 370..(NRows(series) - 4) : \E var \in ClimateVarSet :
           /\ series.index[r] \notin LabelsOf(result)
           /\ \A q \in (r - 30)..(r + 4) : ~IsNaN(series.col[var][q])
           /\ \E q \in (r - 369)..(r - 365) : IsNaN(series.col[var][q])

(***************************************************************************)
(* Properties of the driver (specification DriverSpec)                     *)
(***************************************************************************)
\* the name holds the word "stations", character by character
HasStations(name) ==
    \E at \in 1..(Len(name) - 7) :
        /\ name[at] = "s" /\ name[at + 1] = "t" /\ name[at + 2] = "a"
        /\ name[at + 3] = "t" /\ name[at + 4] = "i" /\ name[at + 5] = "o"
        /\ name[at + 6] = "n" /\ name[at + 7] = "s"

\* how often x occurs in the list l
Count(l, x) == Cardinality({k \in 1..Len(l) : l[k] = x})

\* path holds in files what it held in before (or is absent from both)
SameAt(files, before, path) ==
    /\ path \in DOMAIN files <=> path \in DOMAIN before
    /\ path \in DOMAIN files => files[path] = before[path]

\* the file lacks a required column or has a DATE that is no date
Malformed(f) ==
    \/ ~(RequiredCols \subseteq f.header)
    \/ \E r \in 1..Len(f.rows) : ~IsDateText(f.rows[r]["DATE"])

InputPath(name) == <<"raw_data/noaa/to_csv", name>>

OutputPath(name) == <<"processed_data", name>>

\* C5: after a run that completes, the output directory exists and holds
\* one written file per input file whose name has no "stations" in it, under
\* the same name; nothing is read or written for a name with "stations" in
\* it, and nothing is written into the input directory.
C5_OneOutputPerClimateFile ==
    main = "done" =>
        /\ out_exists
        /\ \A name \in Range(noaa_files) :
               IF HasStations(name)
               THEN /\ Count(reads, InputPath(name)) = 0
                    /\ Count(writes, OutputPath(name)) = 0
                    /\ SameAt(fs, fs0, OutputPath(name))
               ELSE /\ Count(reads, InputPath(name)) = 1
                    /\ Count(writes, OutputPath(name)) = 1
                    /\ OutputPath(name) \in DOMAIN fs
        /\ \A k \in 1..Len(writes) :
               /\ writes[k][1] = "processed_data"
               /\ writes[k][2] \in Range(noaa_files)
        /\ \A path \in (DOMAIN fs) \cup (DOMAIN fs0) :
               path[1] = "raw_data/noaa/to_csv" => SameAt(fs, fs0, path)

\* a first run has completed over a directory with a stations file, a file
\* named station.csv and another climate file, the output directory absent
C5_Witness ==
    /\ main = "done"
    /\ ~rerun
    /\ OutputPath(NameA) \notin DOMAIN fs0
    /\ NameGhcnd \in Range(noaa_files)
    /\ NameStation \in Range(noaa_files)
    /\ Len(writes) = 2

\* C6: when the transform of a file fails the run ends in error at that
\* file: nothing is written for it, no later file of the listing is read or
\* written, the outputs written for the earlier files stay, no step follows;
\* and no run completes over a listing with a malformed climate file.
C6_ErrorEndsRun ==
    /\ main = "error" =>
           /\ i \in 1..Len(noaa_files)
           /\ ~HasStations(noaa_files[i])
           /\ Malformed(fs[InputPath(noaa_files[i])])
           /\ \A k \in i..Len(noaa_files) :
                  /\ Count(writes, OutputPath(noaa_files[k])) = 0
                  /\ SameAt(fs, fs0, OutputPath(noaa_files[k]))
           /\ \A k \in (i + 1)..Len(noaa_files) :
                  Count(reads, InputPath(noaa_files[k])) = 0
           /\ \A k \in 1..(i - 1) :
                  ~HasStations(noaa_files[k]) =>
                      /\ Count(writes, OutputPath(noaa_files[k])) = 1
                      /\ OutputPath(noaa_files[k]) \in DOMAIN fs
                      /\ fs[OutputPath(noaa_files[k])] # StaleCsv
                      /\ ~Malformed(fs[InputPath(noaa_files[k])])
           /\ ~ENABLED DriverNext
    /\ main = "done" =>
           \A name \in Range(noaa_files) :
               ~HasStations(name) => ~Malformed(fs[InputPath(name)])

\* the run has failed at a file with a written file before it and a climate
\* file after it
C6_Witness ==
    /\ main = "error"
    /\ 1 < i
    /\ i < Len(noaa_files)
    /\ Len(writes) = 1
    /\ ~HasStations(noaa_files[i + 1])

\* C8: the output written for a file is determined by the file alone, and a
\* run over an unchanged input directory leaves the output directory as the
\* first completed run left it.
C8_RerunSameOutput ==
    main = "done" =>
        /\ rerun => fs = first_out
        /\ \A name \in Range(noaa_files) :
               ~HasStations(name) =>
                   fs[OutputPath(name)] =
                       to_csv(feature_engineering_noaa_climate_data(
                                  fs[InputPath(name)]))

\* a second run has completed and has written a file with a row in it
C8_Witness ==
    /\ main = "done"
    /\ rerun
    /\ \E k \in 1..Len(writes) : Len(fs[writes[k]].rows) > 0
    /\ Len(writes) = 2

====
